---- MODULE Spec2Model ----
(***************************************************************************)
(* Data Alchemist: the ingestion / normalization / validation / auto-fix   *)
(* pipeline of the repository, as a state machine.                         *)
(*                                                                         *)
(* The state is Home's dataState (clients, workers, tasks, errors,         *)
(* isLoading) and activeTab, ValidationPanel's suggestion state and        *)
(* FileUploadSection's processing flag.  Each handler of the components is *)
(* one action; the functions of lib/dataUtils and lib/aiValidationService  *)
(* are operators.  A tab's component is mounted only while its tab is      *)
(* active: its handlers run then, and its own state is lost on leaving.    *)
(*                                                                         *)
(* Text cells are sequences of one-character strings, so that split, trim, *)
(* parseInt and JSON.parse are computed, not assumed.  Columns that no     *)
(* rule reads (ClientName, GroupTag, AttributesJSON, WorkerName,           *)
(* WorkerGroup, QualificationLevel, TaskName, Category) are left out of    *)
(* the records.  Numeric cells hold integers.                              *)
(***************************************************************************)
EXTENDS Integers, Sequences, FiniteSets, TLC

VARIABLES
    clients,            \* dataState.clients : ParsedClient[]
    workers,            \* dataState.workers : ParsedWorker[]
    tasks,              \* dataState.tasks   : ParsedTask[]
    errors,             \* dataState.errors  : ValidationError[]
    isLoading,          \* dataState.isLoading
    isProcessing,       \* FileUploadSection.isProcessing: a processFiles call is in flight
    activeTab,          \* Home.activeTab
    aiConfigured,       \* aiValidationService.isReady()
    aiFixSuggestions,   \* ValidationPanel.aiFixSuggestions
    isGeneratingFixes,  \* ValidationPanel.isGeneratingFixes
    request,            \* the errors a pending getFixSuggestions call was given
    response,           \* what the pending call will resolve with, once its fetch has settled
    requests,           \* the getFixSuggestions calls made since ValidationPanel was mounted
    passes,             \* the validation passes run since dataState was last written otherwise
    round,              \* the kinds autoFixError has fixed since the last validation pass
    last,               \* the most recent handler run, its argument and the state it ran on
    fileUploadState     \* Home.fileUploadState, the files selected: kept in the parser
                        \* specification (the others draw the files when processFiles returns)

vars == <<clients, workers, tasks, errors, isLoading, isProcessing, activeTab,
          aiConfigured, aiFixSuggestions, isGeneratingFixes, request, response, requests, passes, round,
          last, fileUploadState>>

(***************************************************************************)
(* Bounds of the model.                                                    *)
(***************************************************************************)
\* rows of the files of one upload, all files together, in the session specification
MaxUploadRows == 2
\* suggestion requests per visit of the Validate tab
MaxRequests == 1
\* validation passes in a row over collections nothing else has written
MaxPasses == 2
\* rows per collection in the validator specification
MaxRows == 3
\* the phases a range cell names, in the parser specification
MaxPhase == 3


(***************************************************************************)
(* JavaScript helpers.                                                     *)
(***************************************************************************)
Max(a, b) == IF a >= b THEN a ELSE b
Min(a, b) == IF a <= b THEN a ELSE b

RECURSIVE Flatten(_)
Flatten(ss) == IF ss = <<>> THEN <<>> ELSE Head(ss) \o Flatten(Tail(ss))

RECURSIVE SumSeq(_)
SumSeq(s) == IF s = <<>> THEN 0 ELSE Head(s) + SumSeq(Tail(s))

\* number of elements of s equal to x
Count(s, x) == Cardinality({i \in DOMAIN s : s[i] = x})

\* String.prototype.split(sep) on a sequence of characters
RECURSIVE SplitFrom(_, _, _, _)
SplitFrom(s, sep, i, cur) ==
    IF i > Len(s) THEN <<cur>>
    ELSE IF s[i] = sep THEN <<cur>> \o SplitFrom(s, sep, i + 1, <<>>)
    ELSE SplitFrom(s, sep, i + 1, Append(cur, s[i]))

split(s, sep) == SplitFrom(s, sep, 1, <<>>)

\* String.prototype.trim
RECURSIVE TrimLeft(_)
TrimLeft(s) == IF s /= <<>> /\ Head(s) = " " THEN TrimLeft(Tail(s)) ELSE s

RECURSIVE TrimRight(_)
TrimRight(s) ==
    IF s /= <<>> /\ s[Len(s)] = " " THEN TrimRight(SubSeq(s, 1, Len(s) - 1)) ELSE s

trim(s) == TrimRight(TrimLeft(s))

\* the string a sequence of characters spells
RECURSIVE Str(_)
Str(s) == IF s = <<>> THEN "" ELSE Head(s) \o Str(Tail(s))

Digits == {"0", "1", "2", "3", "4", "5", "6", "7", "8", "9"}

DigitVal(c) ==
    CASE c = "0" -> 0 [] c = "1" -> 1 [] c = "2" -> 2 [] c = "3" -> 3 [] c = "4" -> 4
      [] c = "5" -> 5 [] c = "6" -> 6 [] c = "7" -> 7 [] c = "8" -> 8 [] c = "9" -> 9

\* the value of the longest prefix of digits, acc being the value so far
RECURSIVE DigitPrefix(_, _)
DigitPrefix(s, acc) ==
    IF s /= <<>> /\ Head(s) \in Digits
    THEN DigitPrefix(Tail(s), 10 * acc + DigitVal(Head(s)))
    ELSE acc

\* parseInt: leading blanks skipped, an optional sign, the longest prefix of
\* digits; NaN (nan = TRUE) when there is none
parseInt(s) ==
    LET t == TrimLeft(s)
        neg == t /= <<>> /\ Head(t) = "-"
        u == IF t /= <<>> /\ Head(t) \in {"-", "+"} THEN Tail(t) ELSE t
    IN  IF u = <<>> \/ Head(u) \notin Digits THEN [nan |-> TRUE, v |-> 0]
        ELSE [nan |-> FALSE, v |-> IF neg THEN 0 - DigitPrefix(u, 0) ELSE DigitPrefix(u, 0)]

isNaN(n) == n.nan

\* every character of s is a digit, and there is one
IsNumber(s) == s /= <<>> /\ \A i \in DOMAIN s : s[i] \in Digits

(***************************************************************************)
(* JSON.parse of a cell, for the texts the model feeds it: an array        *)
(* literal of integers parses to the list, any text that is not JSON       *)
(* throws.                                                                 *)
(***************************************************************************)
JSONIsArray(s) ==
    LET t == trim(s)
    IN  /\ Len(t) >= 2
        /\ Head(t) = "["
        /\ t[Len(t)] = "]"
        /\ LET inner == trim(SubSeq(t, 2, Len(t) - 1))
           IN  \/ inner = <<>>
               \/ \A k \in DOMAIN split(inner, ",") : IsNumber(trim(split(inner, ",")[k]))

JSONArray(s) ==
    LET t == trim(s)
        inner == trim(SubSeq(t, 2, Len(t) - 1))
        parts == split(inner, ",")
    IN  IF inner = <<>> THEN <<>>
        ELSE [k \in DOMAIN parts |-> DigitPrefix(trim(parts[k]), 0)]

(***************************************************************************)
(* Raw cells (the output of parseFile).  The list columns are text cells;   *)
(* the numeric columns hold numbers, as a workbook read by parseXLSXFile    *)
(* delivers them, and IDs are texts.                                       *)
(***************************************************************************)
Text(chars) == [t |-> "string", v |-> chars]
\* a numeric cell of a workbook
Number(n) == [t |-> "number", v |-> n]
\* the column is missing from the row: the property is undefined
Absent == [t |-> "undefined", v |-> <<>>]

\* the cell is truthy in a JavaScript condition
Truthy(cell) ==
    CASE cell.t = "string" -> cell.v /= <<>>
      [] cell.t = "number" -> cell.v /= 0
      [] OTHER -> FALSE

\* cell.split(',').map(x => x.trim()) of a text cell
CommaList(cell) ==
    LET parts == split(cell.v, ",")
    IN  [k \in DOMAIN parts |-> Str(trim(parts[k]))]

\* a truthy cell that is no string has no split method: the call throws
SplitThrows(cell) == Truthy(cell) /\ cell.t /= "string"

(***************************************************************************)
(* parseClientData, parseWorkerData, parseTaskData.                        *)
(***************************************************************************)
parseClientRow(client) ==
    [ClientID |-> client.ClientID,
     PriorityLevel |-> client.PriorityLevel,
     RequestedTaskIDs |->
        IF Truthy(client.RequestedTaskIDs) THEN CommaList(client.RequestedTaskIDs) ELSE <<>>]

parseClientDataThrows(rawData) ==
    \E i \in DOMAIN rawData : SplitThrows(rawData[i].RequestedTaskIDs)

parseClientData(rawData) == [i \in DOMAIN rawData |-> parseClientRow(rawData[i])]

\* AvailableSlots: JSON.parse of a text cell, [] when it throws or the cell is absent
parseAvailableSlots(cell) ==
    IF cell.t = "string"
    THEN IF JSONIsArray(cell.v) THEN JSONArray(cell.v) ELSE <<>>
    ELSE <<>>

parseWorkerRow(worker) ==
    [WorkerID |-> worker.WorkerID,
     Skills |-> IF Truthy(worker.Skills) THEN CommaList(worker.Skills) ELSE <<>>,
     AvailableSlots |-> parseAvailableSlots(worker.AvailableSlots),
     MaxLoadPerPhase |-> worker.MaxLoadPerPhase]

parseWorkerDataThrows(rawData) ==
    \E i \in DOMAIN rawData : SplitThrows(rawData[i].Skills)

parseWorkerData(rawData) == [i \in DOMAIN rawData |-> parseWorkerRow(rawData[i])]

\* a mutation of RangeList: the end of the range is left out
RangeListExclusive(start, end) ==
    IF isNaN(start) \/ isNaN(end) \/ end.v - start.v <= 0 THEN <<>>
    ELSE [i \in 1..(end.v - start.v) |-> start.v + i - 1]

\* Array.from({ length: end - start + 1 }, (_, i) => start + i)
RangeList(start, end) ==
    IF isNaN(start) \/ isNaN(end) \/ end.v - start.v + 1 <= 0 THEN <<>>
    ELSE [i \in 1..(end.v - start.v + 1) |-> start.v + i - 1]

\* PreferredPhases: range syntax, then JSON array syntax, then comma-separated
parsePreferredPhases(cell) ==
    IF cell.t = "string"
    THEN IF \E i \in DOMAIN cell.v : cell.v[i] = "-"
         THEN LET parts == split(cell.v, "-")
                  start == parseInt(trim(parts[1]))
                  end == IF Len(parts) >= 2 THEN parseInt(trim(parts[2]))
                         ELSE [nan |-> TRUE, v |-> 0]
              IN  RangeList(start, end)
         ELSE IF cell.v /= <<>> /\ Head(cell.v) = "["
         THEN IF JSONIsArray(cell.v) THEN JSONArray(cell.v) ELSE <<>>
         ELSE LET parts == split(cell.v, ",")
                  nums == [k \in DOMAIN parts |-> parseInt(trim(parts[k]))]
                  kept == SelectSeq(nums, LAMBDA p : ~isNaN(p))
              IN  [k \in DOMAIN kept |-> kept[k].v]
    ELSE <<>>

parseTaskRow(task) ==
    [TaskID |-> task.TaskID,
     Duration |-> task.Duration,
     RequiredSkills |-> IF Truthy(task.RequiredSkills) THEN CommaList(task.RequiredSkills) ELSE <<>>,
     PreferredPhases |-> parsePreferredPhases(task.PreferredPhases),
     MaxConcurrent |-> task.MaxConcurrent]

parseTaskDataThrows(rawData) ==
    \E i \in DOMAIN rawData : SplitThrows(rawData[i].RequiredSkills)

parseTaskData(rawData) == [i \in DOMAIN rawData |-> parseTaskRow(rawData[i])]

(***************************************************************************)
(* The validation rules of lib/dataUtils.  Row i of a sequence is the      *)
(* code's index i - 1.                                                     *)
(***************************************************************************)
ValidationError(id, type, entity, entityId, field, message, suggestion, autoFixAvailable) ==
    [id |-> id, type |-> type, entity |-> entity, entityId |-> entityId, field |-> field,
     message |-> message, suggestion |-> suggestion, autoFixAvailable |-> autoFixAvailable]

\* `${id || fallback-index}`: the row's ID, or a name made of its index when it is empty
SafeId(id, kind, index) == IF id /= "" THEN id ELSE kind \o "-" \o ToString(index)

\* a mutation of UniqueKey: the number continues a counter of the diagnostics
\* listed so far
UniqueKeyCounted(id, kind, index) ==
    SafeId(id, kind, index) \o "-" \o ToString(index + Len(errors))

\* uniqueKey = `${safeId}-${index}`
UniqueKey(id, kind, index) == SafeId(id, kind, index) \o "-" \o ToString(index)

\* a mutation of SeenIds: the Set filled with every other row's ID before the loop
SeenIdsOfOthers(ids, i) == {ids[j] : j \in DOMAIN ids \ {i}}

\* the IDs of the rows before row i (the Set the loop has filled so far)
SeenIds(ids, i) == {ids[j] : j \in 1..(i - 1)}

\* a mutation of PriorityLevelInvalid: 0 is taken for a valid level
PriorityLevelInvalidAboveZero(p) == p < 0 \/ p > 5

\* client.PriorityLevel < 1 || client.PriorityLevel > 5
PriorityLevelInvalid(p) == p < 1 \/ p > 5

ClientErrorsAt(cs, taskIds, i) ==
    LET client == cs[i]
        index == i - 1
        uniqueKey == UniqueKey(client.ClientID, "client", index)
        entityId == SafeId(client.ClientID, "client", index)
        clientIds == SeenIds([j \in DOMAIN cs |-> cs[j].ClientID], i)
        refs == client.RequestedTaskIDs
    IN  (IF client.ClientID \in clientIds
         THEN <<ValidationError("client-duplicate-" \o uniqueKey, "error", "client", entityId,
                    "ClientID", "Duplicate Client ID: " \o client.ClientID,
                    "Ensure each client has a unique ID", FALSE)>>
         ELSE <<>>)
        \o
        (IF PriorityLevelInvalid(client.PriorityLevel)
         THEN <<ValidationError("client-priority-" \o uniqueKey, "error", "client", entityId,
                    "PriorityLevel",
                    "Priority level must be between 1-5, got: " \o ToString(client.PriorityLevel),
                    "Set priority level to a value between 1 and 5", TRUE)>>
         ELSE <<>>)
        \o
        Flatten([k \in DOMAIN refs |->
            IF refs[k] \notin taskIds
            THEN <<ValidationError("client-task-ref-" \o uniqueKey \o "-" \o ToString(k - 1),
                       "error", "client", entityId, "RequestedTaskIDs",
                       "Referenced task ID \"" \o refs[k] \o "\" does not exist",
                       "Remove invalid task ID or add the corresponding task", TRUE)>>
            ELSE <<>>])

\* a mutation of validateClientData: the Set of task IDs is left empty
validateClientDataNoTaskIds(cs, ts) ==
    Flatten([i \in DOMAIN cs |-> ClientErrorsAt(cs, {}, i)])

validateClientData(cs, ts) ==
    LET taskIds == {ts[j].TaskID : j \in DOMAIN ts}
    IN  Flatten([i \in DOMAIN cs |-> ClientErrorsAt(cs, taskIds, i)])

WorkerErrorsAt(ws, i) ==
    LET worker == ws[i]
        index == i - 1
        uniqueKey == UniqueKey(worker.WorkerID, "worker", index)
        entityId == SafeId(worker.WorkerID, "worker", index)
        workerIds == SeenIds([j \in DOMAIN ws |-> ws[j].WorkerID], i)
    IN  (IF worker.WorkerID \in workerIds
         THEN <<ValidationError("worker-duplicate-" \o uniqueKey, "error", "worker", entityId,
                    "WorkerID", "Duplicate Worker ID: " \o worker.WorkerID,
                    "Ensure each worker has a unique ID", FALSE)>>
         ELSE <<>>)
        \o
        (IF Len(worker.AvailableSlots) = 0
         THEN <<ValidationError("worker-slots-" \o uniqueKey, "error", "worker", entityId,
                    "AvailableSlots", "AvailableSlots must be a non-empty array of phase numbers",
                    "Add at least one available phase slot", TRUE)>>
         ELSE <<>>)
        \o
        (IF worker.MaxLoadPerPhase < 1
         THEN <<ValidationError("worker-load-" \o uniqueKey, "error", "worker", entityId,
                    "MaxLoadPerPhase", "MaxLoadPerPhase must be at least 1",
                    "Set MaxLoadPerPhase to a positive integer", TRUE)>>
         ELSE <<>>)
        \o
        (IF Len(worker.AvailableSlots) < worker.MaxLoadPerPhase
         THEN <<ValidationError("worker-overload-" \o uniqueKey, "warning", "worker", entityId,
                    "MaxLoadPerPhase", "MaxLoadPerPhase exceeds number of available slots",
                    "Reduce MaxLoadPerPhase or add more available slots", TRUE)>>
         ELSE <<>>)

validateWorkerData(ws) == Flatten([i \in DOMAIN ws |-> WorkerErrorsAt(ws, i)])

TaskErrorsAt(ts, allWorkerSkills, i) ==
    LET task == ts[i]
        index == i - 1
        uniqueKey == UniqueKey(task.TaskID, "task", index)
        entityId == SafeId(task.TaskID, "task", index)
        taskIds == SeenIds([j \in DOMAIN ts |-> ts[j].TaskID], i)
        skills == task.RequiredSkills
    IN  (IF task.TaskID \in taskIds
         THEN <<ValidationError("task-duplicate-" \o uniqueKey, "error", "task", entityId,
                    "TaskID", "Duplicate Task ID: " \o task.TaskID,
                    "Ensure each task has a unique ID", FALSE)>>
         ELSE <<>>)
        \o
        (IF task.Duration < 1
         THEN <<ValidationError("task-duration-" \o uniqueKey, "error", "task", entityId,
                    "Duration", "Duration must be at least 1 phase",
                    "Set duration to a positive integer", TRUE)>>
         ELSE <<>>)
        \o
        (IF task.MaxConcurrent < 1
         THEN <<ValidationError("task-concurrent-" \o uniqueKey, "error", "task", entityId,
                    "MaxConcurrent", "MaxConcurrent must be at least 1",
                    "Set MaxConcurrent to a positive integer", TRUE)>>
         ELSE <<>>)
        \o
        Flatten([k \in DOMAIN skills |->
            IF skills[k] \notin allWorkerSkills
            THEN <<ValidationError("task-skill-" \o uniqueKey \o "-" \o ToString(k - 1),
                       "error", "task", entityId, "RequiredSkills",
                       "Required skill \"" \o skills[k] \o "\" is not available in any worker",
                       "Add a worker with this skill or remove the skill requirement", FALSE)>>
            ELSE <<>>])

\* a mutation of validateTaskData: only the workers that have an available slot
\* add their skills to the Set
validateTaskDataOfAvailable(ts, ws) ==
    LET available == SelectSeq(ws, LAMBDA w : Len(w.AvailableSlots) > 0)
        skills == Flatten([j \in DOMAIN available |-> available[j].Skills])
    IN  Flatten([i \in DOMAIN ts |-> TaskErrorsAt(ts, {skills[k] : k \in DOMAIN skills}, i)])

validateTaskData(ts, ws) ==
    LET skills == Flatten([j \in DOMAIN ws |-> ws[j].Skills])
        allWorkerSkills == {skills[k] : k \in DOMAIN skills}
    IN  Flatten([i \in DOMAIN ts |-> TaskErrorsAt(ts, allWorkerSkills, i)])

\* phaseSlotMap.get(phase) || 0: each occurrence of the phase in a worker's
\* AvailableSlots adds the worker's MaxLoadPerPhase
phaseSlot(ws, phase) ==
    SumSeq([j \in DOMAIN ws |-> Count(ws[j].AvailableSlots, phase) * ws[j].MaxLoadPerPhase])

\* phaseDemandMap.get(phase): each occurrence of the phase in a task's
\* PreferredPhases adds the task's Duration
phaseDemand(ts, phase) ==
    SumSeq([j \in DOMAIN ts |-> Count(ts[j].PreferredPhases, phase) * ts[j].Duration])

\* the keys of phaseDemandMap in insertion order: each phase at its first occurrence
RECURSIVE FirstOccurrences(_, _)
FirstOccurrences(s, seen) ==
    IF s = <<>> THEN <<>>
    ELSE IF Head(s) \in seen THEN FirstOccurrences(Tail(s), seen)
    ELSE <<Head(s)>> \o FirstOccurrences(Tail(s), seen \cup {Head(s)})

phaseDemandKeys(ts) == FirstOccurrences(Flatten([j \in DOMAIN ts |-> ts[j].PreferredPhases]), {})

validateCrossReferences(cs, ws, ts) ==
    LET keys == phaseDemandKeys(ts)
    IN  Flatten([k \in DOMAIN keys |->
            LET phase == keys[k]
                demand == phaseDemand(ts, phase)
                supply == phaseSlot(ws, phase)
            IN  IF demand > supply
                THEN <<ValidationError("phase-saturation-" \o ToString(phase), "warning", "task",
                           "phase-" \o ToString(phase), "PreferredPhases",
                           "Phase " \o ToString(phase) \o " is oversaturated: demand "
                               \o ToString(demand) \o " > supply " \o ToString(supply),
                           "Add more workers to this phase or adjust task preferences", FALSE)>>
                ELSE <<>>])

\* a mutation of allErrors: the worker errors are spread first
allErrorsWorkersFirst(cs, ws, ts) ==
    validateWorkerData(ws) \o validateClientData(cs, ts)
        \o validateTaskData(ts, ws) \o validateCrossReferences(cs, ws, ts)

\* allErrors = [...clientErrors, ...workerErrors, ...taskErrors, ...crossRefErrors]
allErrors(cs, ws, ts) ==
    validateClientData(cs, ts) \o validateWorkerData(ws)
        \o validateTaskData(ts, ws) \o validateCrossReferences(cs, ws, ts)

(***************************************************************************)
(* lib/aiValidationService: the local suggestions and applyFix.            *)
(* A suggestion is {errorId, suggestedFix, confidence, autoApplicable},    *)
(* the confidence in hundredths; its explanation text is left out.         *)
(***************************************************************************)
Suggestion(errorId, suggestedFix, confidence, autoApplicable) ==
    [errorId |-> errorId, suggestedFix |-> suggestedFix, confidence |-> confidence,
     autoApplicable |-> autoApplicable]

\* a mutation of FallbackFor: no suggestion for a field without a case
FallbackForKnownFields(error) ==
    IF error.field \in {"PriorityLevel", "Duration", "MaxLoadPerPhase", "Skills", "RequiredSkills"}
    THEN <<Suggestion(error.id, "Fix " \o error.field, 80, TRUE)>>
    ELSE <<>>

\* the suggestions getFallbackSuggestions pushes for one error (none when
\* suggestedFix stays empty)
FallbackFor(error) ==
    CASE error.field = "PriorityLevel" ->
            IF error.entity = "client"
            THEN <<Suggestion(error.id, "Set priority level to valid range (1-5)", 80, TRUE)>>
            ELSE <<>>
      [] error.field = "Duration" ->
            IF error.entity = "task"
            THEN <<Suggestion(error.id, "Set minimum duration to 1 phase", 80, TRUE)>>
            ELSE <<>>
      [] error.field = "MaxLoadPerPhase" ->
            IF error.entity = "worker"
            THEN <<Suggestion(error.id, "Set minimum load capacity to 1", 80, TRUE)>>
            ELSE <<>>
      [] error.field = "Skills" ->
            IF error.entity = "worker"
            THEN <<Suggestion(error.id, "Add relevant skills based on task requirements", 60, FALSE)>>
            ELSE <<>>
      [] error.field = "RequiredSkills" ->
            IF error.entity = "task"
            THEN <<Suggestion(error.id, "Review and validate required skills", 50, FALSE)>>
            ELSE <<>>
      [] OTHER -> <<Suggestion(error.id, "Manual review required", 30, FALSE)>>

getFallbackSuggestions(errs) == Flatten([k \in DOMAIN errs |-> FallbackFor(errs[k])])

getValidPriorityLevel(current) ==
    IF current < 1 THEN 3
    ELSE IF current > 5 THEN 5
    ELSE current

\* skills are trimmed when they are parsed: skill && skill.trim() !== '' is skill /= ""
NonEmptySkills(skills) == SelectSeq(skills, LAMBDA skill : skill /= "")

getDefaultSkills(currentSkills) ==
    IF Len(currentSkills) = 0 THEN <<"General">> ELSE NonEmptySkills(currentSkills)

\* Object.keys(skillCounts).reduce((a, b) => skillCounts[a] > skillCounts[b] ? a : b, 'General')
RECURSIVE MostCommon(_, _, _)
MostCommon(keys, all, a) ==
    IF keys = <<>> THEN a
    ELSE MostCommon(Tail(keys), all, IF Count(all, a) > Count(all, Head(keys)) THEN a ELSE Head(keys))

getDefaultRequiredSkills(currentSkills, ws) ==
    IF Len(currentSkills) = 0
    THEN LET allSkills == NonEmptySkills(Flatten([j \in DOMAIN ws |-> ws[j].Skills]))
         IN  <<MostCommon(FirstOccurrences(allSkills, {}), allSkills, "General")>>
    ELSE NonEmptySkills(currentSkills)

\* the dataState a handler reads
DataState == [clients |-> clients, workers |-> workers, tasks |-> tasks, errors |-> errors]

\* the switch of applyFix takes a branch that fills `updates`
applyFixUpdates(error) ==
    \/ error.field = "PriorityLevel" /\ error.entity = "client"
    \/ error.field = "Duration" /\ error.entity = "task"
    \/ error.field = "MaxLoadPerPhase" /\ error.entity = "worker"
    \/ error.field = "Skills" /\ error.entity = "worker"
    \/ error.field = "RequiredSkills" /\ error.entity = "task"

WithoutError(errs, error) == SelectSeq(errs, LAMBDA e : e.id /= error.id)

\* applyFix(suggestion, error, dataState), merged into the dataState by handleDataUpdate
applyFix(suggestion, error, ds) ==
    LET cs == IF error.field = "PriorityLevel" /\ error.entity = "client"
              THEN [i \in DOMAIN ds.clients |->
                      IF ds.clients[i].ClientID = error.entityId
                      THEN [ds.clients[i] EXCEPT
                              !.PriorityLevel = getValidPriorityLevel(ds.clients[i].PriorityLevel)]
                      ELSE ds.clients[i]]
              ELSE ds.clients
        ts == IF error.field = "Duration" /\ error.entity = "task"
              THEN [i \in DOMAIN ds.tasks |->
                      IF ds.tasks[i].TaskID = error.entityId
                      THEN [ds.tasks[i] EXCEPT
                              !.Duration = Max(1, IF ds.tasks[i].Duration = 0 THEN 1
                                                  ELSE ds.tasks[i].Duration)]
                      ELSE ds.tasks[i]]
              ELSE IF error.field = "RequiredSkills" /\ error.entity = "task"
              THEN [i \in DOMAIN ds.tasks |->
                      IF ds.tasks[i].TaskID = error.entityId
                      THEN [ds.tasks[i] EXCEPT
                              !.RequiredSkills =
                                  getDefaultRequiredSkills(ds.tasks[i].RequiredSkills, ds.workers)]
                      ELSE ds.tasks[i]]
              ELSE ds.tasks
        ws == IF error.field = "MaxLoadPerPhase" /\ error.entity = "worker"
              THEN [i \in DOMAIN ds.workers |->
                      IF ds.workers[i].WorkerID = error.entityId
                      THEN [ds.workers[i] EXCEPT
                              !.MaxLoadPerPhase = Max(1, IF ds.workers[i].MaxLoadPerPhase = 0 THEN 1
                                                         ELSE ds.workers[i].MaxLoadPerPhase)]
                      ELSE ds.workers[i]]
              ELSE IF error.field = "Skills" /\ error.entity = "worker"
              THEN [i \in DOMAIN ds.workers |->
                      IF ds.workers[i].WorkerID = error.entityId
                      THEN [ds.workers[i] EXCEPT !.Skills = getDefaultSkills(ds.workers[i].Skills)]
                      ELSE ds.workers[i]]
              ELSE ds.workers
    IN  [clients |-> cs, workers |-> ws, tasks |-> ts,
         errors |-> IF applyFixUpdates(error) THEN WithoutError(ds.errors, error) ELSE ds.errors]

\* the fallback branch of autoFixError ("manual auto-fix logic"), merged into the dataState
manualAutoFix(error, ds) ==
    [clients |->
        IF error.field = "PriorityLevel" /\ error.entity = "client"
        THEN [i \in DOMAIN ds.clients |->
                IF ds.clients[i].ClientID = error.entityId
                THEN [ds.clients[i] EXCEPT
                        !.PriorityLevel = Max(1, Min(5, ds.clients[i].PriorityLevel))]
                ELSE ds.clients[i]]
        ELSE ds.clients,
     tasks |->
        IF error.field = "Duration" /\ error.entity = "task"
        THEN [i \in DOMAIN ds.tasks |->
                IF ds.tasks[i].TaskID = error.entityId
                THEN [ds.tasks[i] EXCEPT !.Duration = Max(1, ds.tasks[i].Duration)]
                ELSE ds.tasks[i]]
        ELSE ds.tasks,
     workers |->
        IF error.field = "MaxLoadPerPhase" /\ error.entity = "worker"
        THEN [i \in DOMAIN ds.workers |->
                IF ds.workers[i].WorkerID = error.entityId
                THEN [ds.workers[i] EXCEPT !.MaxLoadPerPhase = Max(1, ds.workers[i].MaxLoadPerPhase)]
                ELSE ds.workers[i]]
        ELSE ds.workers,
     errors |-> WithoutError(ds.errors, error)]

\* aiFixSuggestions.find(s => s.errorId === error.id): the first match, as a list of 0 or 1
FindSuggestion(suggestions, error) ==
    LET hits == SelectSeq(suggestions, LAMBDA sg : sg.errorId = error.id)
    IN  IF hits = <<>> THEN <<>> ELSE <<Head(hits)>>

(***************************************************************************)
(* Inputs.  The rows a file may hold in the session specification.         *)
(***************************************************************************)
\* the sequences over S of length lo..hi
SeqsOf(S, lo, hi) == UNION {[1..n -> S] : n \in lo..hi}

RawClientRows ==
    {[ClientID |-> "C1", PriorityLevel |-> 0, RequestedTaskIDs |-> Text(<<>>)],
     [ClientID |-> "C1", PriorityLevel |-> 6, RequestedTaskIDs |-> Text(<<>>)],
     [ClientID |-> "C2", PriorityLevel |-> 3,
      RequestedTaskIDs |-> Text(<<"T", "9", "9", ",", " ", "T", "1">>)]}

RawWorkerRows ==
    {[WorkerID |-> "W1", Skills |-> Text(<<"a">>), AvailableSlots |-> Text(<<"[", "1", "]">>),
      MaxLoadPerPhase |-> 0],
     [WorkerID |-> "W1", Skills |-> Text(<<>>), AvailableSlots |-> Text(<<"[", "]">>),
      MaxLoadPerPhase |-> 2]}

RawTaskRows ==
    {[TaskID |-> "T1", Duration |-> 0, RequiredSkills |-> Text(<<>>),
      PreferredPhases |-> Text(<<"1">>), MaxConcurrent |-> 1],
     [TaskID |-> "T1", Duration |-> 3, RequiredSkills |-> Text(<<"a">>),
      PreferredPhases |-> Text(<<"1">>), MaxConcurrent |-> 0]}

\* fileUploadState: a selected file (the rows parseFile reads from it) or null
File(rows) == [selected |-> TRUE, rows |-> rows]
NoFile == [selected |-> FALSE, rows |-> <<>>]
IsFile(f) == f.selected

FilesOf(rows) == {File(r) : r \in SeqsOf(rows, 1, MaxUploadRows)} \cup {NoFile}

NoUpload == [clients |-> NoFile, workers |-> NoFile, tasks |-> NoFile]

\* the selections handleFileChange can leave in fileUploadState
Uploads ==
    {u \in {[clients |-> c, workers |-> w, tasks |-> t] :
                c \in FilesOf(RawClientRows), w \in FilesOf(RawWorkerRows),
                t \in FilesOf(RawTaskRows)} :
        Len(u.clients.rows) + Len(u.workers.rows) + Len(u.tasks.rows) <= MaxUploadRows}

NoError == ValidationError("", "", "", "", "", "", "", FALSE)

\* the kind of defect an error reports: each check of the validators has its own
\* entity, field and type
DefectKind(error) == <<error.entity, error.field, error.type>>

\* the fixes since the last validation pass: clean while autoFixError alone has
\* written dataState since that pass, fixed the kinds it was called for
Round(clean, fixed) == [clean |-> clean, fixed |-> fixed]

\* the record of a handler run: its name, the error it was given, the branch it took
Ran(op, error, ok) == [op |-> op, error |-> error, ok |-> ok]

\* the record of processFiles reaching its first await: the list it has just cleared
Started(before) ==
    [op |-> "processFiles:start", error |-> NoError, ok |-> TRUE, before |-> before]

\* the result of the pending getFixSuggestions call: none while its fetch is out
NoResponse == [settled |-> FALSE, suggestions |-> <<>>]
Response(suggestions) == [settled |-> TRUE, suggestions |-> suggestions]

(***************************************************************************)
(* The handlers.                                                           *)
(***************************************************************************)
Init ==
    /\ clients = <<>>
    /\ workers = <<>>
    /\ tasks = <<>>
    /\ errors = <<>>
    /\ isLoading = FALSE
    /\ isProcessing = FALSE
    /\ activeTab = "upload"
    /\ aiConfigured \in BOOLEAN
    /\ aiFixSuggestions = <<>>
    /\ isGeneratingFixes = FALSE
    /\ request = <<>>
    /\ response = NoResponse
    /\ requests = 0
    /\ passes = 0
    /\ round = Round(FALSE, {})
    /\ last = Ran("init", NoError, TRUE)
    /\ fileUploadState = NoUpload

hasData == Len(clients) > 0 \/ Len(workers) > 0 \/ Len(tasks) > 0

\* ExportSection and Home: validationPassed = no entry of type 'error'
errorCount(errs) == Len(SelectSeq(errs, LAMBDA e : e.type = "error"))
warningCount(errs) == Len(SelectSeq(errs, LAMBDA e : e.type = "warning"))
\* a mutation of validationPassed: the warnings are counted, not the errors
validationPassedNoWarning(errs) == warningCount(errs) = 0

validationPassed(errs) == errorCount(errs) = 0

\* the tab triggers: Validate is disabled without data, Export while an error is
\* outstanding.  Leaving the Validate tab unmounts ValidationPanel: its
\* suggestions and its pending request are gone.  The model does not open the
\* Validate tab while a processFiles call is in flight.
SetActiveTab ==
    /\ \E tab \in {"upload", "validate", "export"} :
        /\ tab /= activeTab
        /\ tab = "validate" => hasData /\ ~isProcessing
        /\ tab = "export" => validationPassed(errors)
        /\ activeTab' = tab
    /\ aiFixSuggestions' = <<>>
    /\ isGeneratingFixes' = FALSE
    /\ request' = <<>>
    /\ response' = NoResponse
    /\ requests' = 0
    /\ last' = Ran("setActiveTab", NoError, TRUE)
    /\ UNCHANGED <<fileUploadState, clients, workers, tasks, errors, isLoading, isProcessing, aiConfigured, passes, round>>

\* processFiles up to its first await: the list is cleared, the loading flag raised
ProcessFilesStart ==
    /\ activeTab = "upload"
    /\ ~isProcessing
    /\ isProcessing' = TRUE
    /\ isLoading' = TRUE
    /\ errors' = <<>>
    /\ last' = Started(errors)
    /\ passes' = 0
    /\ round' = Round(FALSE, {})
    /\ UNCHANGED <<fileUploadState, response, clients, workers, tasks, activeTab, aiConfigured, aiFixSuggestions,
                   isGeneratingFixes, request, requests>>

processFilesThrows(u) ==
    \/ IsFile(u.clients) /\ parseClientDataThrows(u.clients.rows)
    \/ IsFile(u.workers) /\ parseWorkerDataThrows(u.workers.rows)
    \/ IsFile(u.tasks) /\ parseTaskDataThrows(u.tasks.rows)

\* the dataState processFiles builds from the files u: parse, validate
processFilesResult(u) ==
    LET clientsData == IF IsFile(u.clients) THEN parseClientData(u.clients.rows) ELSE <<>>
        workersData == IF IsFile(u.workers) THEN parseWorkerData(u.workers.rows) ELSE <<>>
        tasksData == IF IsFile(u.tasks) THEN parseTaskData(u.tasks.rows) ELSE <<>>
    IN  [clients |-> clientsData, workers |-> workersData, tasks |-> tasksData,
         errors |-> allErrors(clientsData, workersData, tasksData)]

\* processFiles after its awaits, having read the files u, no file failing: the
\* dataState is replaced
processFilesDelivers(u) ==
    /\ isProcessing
    /\ LET ds == processFilesResult(u)
       IN  /\ clients' = ds.clients
           /\ workers' = ds.workers
           /\ tasks' = ds.tasks
           /\ errors' = ds.errors
    /\ isLoading' = FALSE
    /\ isProcessing' = FALSE
    /\ last' = Ran("processFiles", NoError, TRUE)
    /\ passes' = 1
    /\ round' = Round(TRUE, {})
    /\ UNCHANGED <<fileUploadState, response, activeTab, aiConfigured, aiFixSuggestions, isGeneratingFixes,
                   request, requests>>

\* in the session specification the files are drawn when the call returns
ProcessFilesDone ==
    \E u \in Uploads :
        /\ IsFile(u.clients) \/ IsFile(u.workers) \/ IsFile(u.tasks)
        /\ ~processFilesThrows(u)
        /\ processFilesDelivers(u)

\* processFiles' catch: parseFile rejected (a file that cannot be read or decoded)
\* or a parse function threw
ProcessFilesFailed ==
    /\ isProcessing
    /\ errors' = <<>>
    /\ isLoading' = FALSE
    /\ isProcessing' = FALSE
    /\ last' = Ran("processFiles", NoError, FALSE)
    /\ passes' = 0
    /\ round' = Round(FALSE, {})
    /\ UNCHANGED <<fileUploadState, response, clients, workers, tasks, activeTab, aiConfigured, aiFixSuggestions,
                   isGeneratingFixes, request, requests>>

\* runValidation
RunValidation ==
    /\ activeTab = "validate"
    /\ passes < MaxPasses
    /\ errors' = allErrors(clients, workers, tasks)
    /\ last' = Ran("runValidation", NoError, TRUE)
    /\ passes' = passes + 1
    /\ round' = Round(TRUE, {})
    /\ UNCHANGED <<fileUploadState, response, clients, workers, tasks, isLoading, isProcessing, activeTab, aiConfigured,
                   aiFixSuggestions, isGeneratingFixes, request, requests>>

\* generateAIFixSuggestions up to its await (the button shows only when the
\* service is configured and the list is not empty)
GenerateStart ==
    /\ activeTab = "validate"
    /\ aiConfigured
    /\ ~isGeneratingFixes
    /\ Len(errors) > 0
    /\ requests < MaxRequests
    /\ requests' = requests + 1
    /\ isGeneratingFixes' = TRUE
    /\ request' = errors
    /\ last' = Ran("generateAIFixSuggestions:start", NoError, TRUE)
    /\ UNCHANGED <<fileUploadState, response, clients, workers, tasks, errors, isLoading, isProcessing, activeTab,
                   aiConfigured, aiFixSuggestions, passes, round>>

\* what the service may answer for the errors it was sent: the suggestions array of
\* the reply is taken as it comes, here one auto-applicable suggestion for each of
\* the first n errors (none, some, all)
ServiceAnswers(errs) ==
    {[k \in 1..n |-> Suggestion(errs[k].id, "AI fix", 90, TRUE)] : n \in 0..Len(errs)}

\* getFixSuggestions resolves: with the service's suggestions, or with the local
\* ones (status not OK, exception, unexpected shape)
getFixSuggestionsResults(errs, ready) ==
    IF ~ready THEN {getFallbackSuggestions(errs)}
    ELSE ServiceAnswers(errs) \cup {getFallbackSuggestions(errs)}

\* the fetch of the pending call settles (an answer, a status, an exception) and
\* getFixSuggestions has its result; nothing bounds the time this takes
FetchSettles ==
    /\ isGeneratingFixes
    /\ ~response.settled
    /\ \E suggestions \in getFixSuggestionsResults(request, aiConfigured) :
        response' = Response(suggestions)
    /\ UNCHANGED <<fileUploadState, clients, workers, tasks, errors, isLoading, isProcessing,
                   activeTab, aiConfigured, aiFixSuggestions, isGeneratingFixes, request,
                   requests, passes, round, last>>

\* generateAIFixSuggestions after its await
GenerateDone ==
    /\ isGeneratingFixes
    /\ response.settled
    /\ aiFixSuggestions' = response.suggestions
    /\ isGeneratingFixes' = FALSE
    /\ request' = <<>>
    /\ response' = NoResponse
    /\ last' = Ran("generateAIFixSuggestions", NoError, TRUE)
    /\ UNCHANGED <<fileUploadState, clients, workers, tasks, errors, isLoading, isProcessing,
                   activeTab, aiConfigured, requests, passes, round>>

\* applyAIFix(suggestion, error), merged by handleDataUpdate
applyAIFixEffect(suggestion, error) ==
    LET ds == applyFix(suggestion, error, DataState)
    IN  /\ clients' = ds.clients
        /\ workers' = ds.workers
        /\ tasks' = ds.tasks
        /\ errors' = ds.errors
        /\ aiFixSuggestions' =
              SelectSeq(aiFixSuggestions, LAMBDA sg : sg.errorId /= suggestion.errorId)

\* the "Apply AI Fix" button of an error that has an auto-applicable suggestion
ApplyAIFix ==
    /\ activeTab = "validate"
    /\ \E k \in DOMAIN errors :
        LET found == FindSuggestion(aiFixSuggestions, errors[k])
        IN  /\ found /= <<>>
            /\ found[1].autoApplicable
            /\ applyAIFixEffect(found[1], errors[k])
            /\ last' = Ran("applyAIFix", errors[k], TRUE)
    /\ passes' = 0
    /\ round' = Round(FALSE, {})
    /\ UNCHANGED <<fileUploadState, response, isLoading, isProcessing, activeTab, aiConfigured, isGeneratingFixes, request, requests>>

\* autoFixError(error): the "Auto-fix" button of an error with autoFixAvailable;
\* ok tells the manual branch from the one that hands over to applyAIFix
AutoFixError ==
    /\ activeTab = "validate"
    /\ \E k \in DOMAIN errors :
        LET error == errors[k]
            found == FindSuggestion(aiFixSuggestions, error)
        IN  /\ error.autoFixAvailable
            /\ round' = IF round.clean
                        THEN Round(TRUE, round.fixed \cup {DefectKind(error)})
                        ELSE round
            /\ IF found /= <<>> /\ found[1].autoApplicable
               THEN /\ applyAIFixEffect(found[1], error)
                    /\ last' = Ran("autoFixError", error, FALSE)
               ELSE LET ds == manualAutoFix(error, DataState)
                    IN  /\ clients' = ds.clients
                        /\ workers' = ds.workers
                        /\ tasks' = ds.tasks
                        /\ errors' = ds.errors
                        /\ aiFixSuggestions' = aiFixSuggestions
                        /\ last' = Ran("autoFixError", error, TRUE)
    /\ passes' = 0
    /\ UNCHANGED <<fileUploadState, response, isLoading, isProcessing, activeTab, aiConfigured, isGeneratingFixes, request, requests>>

\* exportData as the handler runs when called on the mounted ExportSection:
\* refused while an error is outstanding (ok = FALSE), else the files are written
\* (ok = TRUE); dataState is read, never written
ExportData ==
    /\ activeTab = "export"
    /\ last' = Ran("exportData", NoError, validationPassed(errors))
    /\ UNCHANGED <<fileUploadState, response, clients, workers, tasks, errors, isLoading, isProcessing, activeTab,
                   aiConfigured, aiFixSuggestions, isGeneratingFixes, request, requests, passes, round>>

Next ==
    \/ SetActiveTab
    \/ ProcessFilesStart
    \/ ProcessFilesDone
    \/ ProcessFilesFailed
    \/ RunValidation
    \/ GenerateStart
    \/ FetchSettles
    \/ GenerateDone
    \/ ApplyAIFix
    \/ AutoFixError
    \/ ExportData

Spec == Init /\ [][Next]_vars

\* the session with the scheduling the runtime guarantees: once the fetch has
\* settled, the rest of generateAIFixSuggestions runs.  Nothing makes the fetch
\* settle, and no handler has to be called.
SpecL == Init /\ [][Next]_vars /\ WF_vars(GenerateDone)

(***************************************************************************)
(* The validators as functions of the collections: the collections are     *)
(* drawn from typed rows (what the parse functions deliver), then          *)
(* runValidation is applied.                                               *)
(***************************************************************************)
ClientRowsV ==
    [ClientID : {"C1", "C2"}, PriorityLevel : {0, 1, 5, 6}, RequestedTaskIDs : {<<>>}]

\* rows for the reference check, the task T1 being there
ClientRowsR ==
    [ClientID : {"C1"}, PriorityLevel : {3},
     RequestedTaskIDs : {<<>>, <<"T1">>, <<"T99", "T1">>, <<"T99", "T99">>}]

WorkerRowsV ==
    [WorkerID : {"W1", "W2"}, Skills : {<<"a">>},
     AvailableSlots : {<<>>, <<1>>}, MaxLoadPerPhase : {0, 2}]

TaskRowsV ==
    [TaskID : {"T1", "T2"}, Duration : {0, 1}, RequiredSkills : {<<>>},
     PreferredPhases : {<<>>}, MaxConcurrent : {0, 1}]

\* rows for the skill check, a worker with the skill "a" being there
TaskRowsS ==
    [TaskID : {"T1"}, Duration : {1},
     RequiredSkills : {<<>>, <<"b">>, <<"a", "b">>, <<"b", "b">>},
     PreferredPhases : {<<>>}, MaxConcurrent : {1}]

\* rows for the phase sums: supply per worker and phase, demand per task and phase
WorkerRowsX ==
    [WorkerID : {"W1"}, Skills : {<<>>},
     AvailableSlots : {<<1>>, <<1, 1>>}, MaxLoadPerPhase : {2}]

TaskRowsX ==
    [TaskID : {"T1"}, Duration : {1, 3}, RequiredSkills : {<<>>},
     PreferredPhases : {<<1>>, <<1, 1>>}, MaxConcurrent : {1}]
    \cup [TaskID : {"T2"}, Duration : {1}, RequiredSkills : {<<>>},
          PreferredPhases : {<<2, 1>>}, MaxConcurrent : {1}]

OneTask ==
    [TaskID |-> "T1", Duration |-> 1, RequiredSkills |-> <<>>, PreferredPhases |-> <<>>,
     MaxConcurrent |-> 1]

OneWorker ==
    [WorkerID |-> "W1", Skills |-> <<"a">>, AvailableSlots |-> <<1>>, MaxLoadPerPhase |-> 1]

\* the workers of the skill check: none, one with the skill "a", one with the
\* skill "a" and no available slot
WorkersS == {<<>>, <<OneWorker>>, <<[OneWorker EXCEPT !.AvailableSlots = <<>>]>>}

CollectionsV ==
    {[clients |-> cs, workers |-> <<>>, tasks |-> <<>>] :
        cs \in SeqsOf(ClientRowsV, 0, MaxRows)}
    \cup {[clients |-> cs, workers |-> <<>>, tasks |-> <<OneTask>>] :
        cs \in SeqsOf(ClientRowsR, 0, MaxRows)}
    \cup {[clients |-> <<>>, workers |-> ws, tasks |-> <<>>] :
        ws \in SeqsOf(WorkerRowsV, 0, MaxRows)}
    \cup {[clients |-> <<>>, workers |-> <<>>, tasks |-> ts] :
        ts \in SeqsOf(TaskRowsV, 0, MaxRows)}
    \cup {[clients |-> <<>>, workers |-> ws, tasks |-> ts] :
        ws \in WorkersS, ts \in SeqsOf(TaskRowsS, 0, MaxRows)}
    \cup {[clients |-> <<>>, workers |-> ws, tasks |-> ts] :
        ws \in SeqsOf(WorkerRowsX, 0, MaxRows), ts \in SeqsOf(TaskRowsX, 0, MaxRows)}

InitV ==
    /\ \E c \in CollectionsV :
        /\ clients = c.clients
        /\ workers = c.workers
        /\ tasks = c.tasks
    /\ errors = <<>>
    /\ isLoading = FALSE
    /\ isProcessing = FALSE
    /\ activeTab = "validate"
    /\ aiConfigured = FALSE
    /\ aiFixSuggestions = <<>>
    /\ isGeneratingFixes = FALSE
    /\ request = <<>>
    /\ response = NoResponse
    /\ requests = 0
    /\ passes = 0
    /\ round = Round(FALSE, {})
    /\ last = Ran("init", NoError, TRUE)
    /\ fileUploadState = NoUpload

NextV == RunValidation

SpecV == InitV /\ [][NextV]_vars

(***************************************************************************)
(* The resolvers on one uploaded row per collection: the state is the one  *)
(* processFiles delivers for the rows (parsed and validated) with the      *)
(* Validate tab opened; then the handlers of ValidationPanel run.          *)
(***************************************************************************)
RawClientRowsF ==
    {[ClientID |-> "C1", PriorityLevel |-> p, RequestedTaskIDs |-> Text(<<>>)] : p \in {0, 3, 6}}

RawWorkerRowsF ==
    {[WorkerID |-> "W1", Skills |-> Text(s), AvailableSlots |-> Text(<<"[", "1", "]">>),
      MaxLoadPerPhase |-> l] : s \in {<<"a">>, <<>>}, l \in {0, 2}}

RawTaskRowsF ==
    {[TaskID |-> "T1", Duration |-> d, RequiredSkills |-> Text(s),
      PreferredPhases |-> Text(<<"1">>), MaxConcurrent |-> 1] :
        d \in {0, 2}, s \in {<<>>, <<" ">>, <<"b">>, <<"b", ",">>}}

InitF ==
    /\ \E c \in RawClientRowsF, w \in RawWorkerRowsF, t \in RawTaskRowsF :
        /\ clients = parseClientData(<<c>>)
        /\ workers = parseWorkerData(<<w>>)
        /\ tasks = parseTaskData(<<t>>)
    /\ errors = allErrors(clients, workers, tasks)
    /\ isLoading = FALSE
    /\ isProcessing = FALSE
    /\ activeTab = "validate"
    /\ aiConfigured = TRUE
    /\ aiFixSuggestions = <<>>
    /\ isGeneratingFixes = FALSE
    /\ request = <<>>
    /\ response = NoResponse
    /\ requests = 0
    /\ passes = 1
    /\ round = Round(TRUE, {})
    /\ last = Ran("setActiveTab", NoError, TRUE)
    /\ fileUploadState = NoUpload

NextF ==
    \/ RunValidation
    \/ GenerateStart
    \/ FetchSettles
    \/ GenerateDone
    \/ ApplyAIFix
    \/ AutoFixError

SpecF == InitF /\ [][NextF]_vars

(***************************************************************************)
(* The parse functions on one uploaded row: the files are selected, a      *)
(* processFiles call is in flight, and it delivers or fails.  The list     *)
(* cells are written in the syntaxes the parse functions distinguish.      *)
(***************************************************************************)
\* the character of a one-digit number
Numeral(n) == ToString(n)

\* tokens joined by a separator
RECURSIVE Join(_, _)
Join(tokens, sep) ==
    IF tokens = <<>> THEN <<>>
    ELSE IF Len(tokens) = 1 THEN Head(tokens)
    ELSE Head(tokens) \o sep \o Join(Tail(tokens), sep)

\* range syntax "a-b"
RangeText(a, b) == <<Numeral(a), "-", Numeral(b)>>

\* JSON array syntax "[x,y]"
ArrayText(xs) == <<"[">> \o Join([k \in DOMAIN xs |-> <<Numeral(xs[k])>>], <<",">>) \o <<"]">>

\* comma-separated values "s, t, u"
CommaText(tokens) == Join(tokens, <<",", " ">>)

\* the tokens of a list of phases or slots: numbers, and a word
NumberTokens == {<<"1">>, <<"2">>, <<"x">>}

\* the list cells of PreferredPhases and AvailableSlots
NumberListCells ==
    {RangeText(a, b) : a \in 1..MaxPhase, b \in 1..MaxPhase}
        \cup {ArrayText(xs) : xs \in SeqsOf({2, 4}, 0, 2)}
        \cup {CommaText(ts) : ts \in SeqsOf(NumberTokens, 1, 3)}
        \cup {<<>>}

\* the AvailableSlots cells: a cell that spells one number is JSON of a number,
\* which JSON.parse returns as it is, no list; such cells are left out
SlotListCells == {cell \in NumberListCells : ~IsNumber(trim(cell))}

\* the list cells of Skills, RequiredSkills and RequestedTaskIDs, of the tokens ts:
\* tokens joined by commas, blanks around them, empty tokens among them
NameListCells(ts) ==
    {Join(tokens, <<",">>) : tokens \in SeqsOf(ts \cup {<<>>}, 0, 3)}
        \cup {Join(tokens, <<" ", ",", " ">>) : tokens \in SeqsOf(ts, 2, 2)}

\* a list column of names: a text, a number (a workbook cell that holds one
\* numeric id), or no cell
NameCells(ts) == {Text(chars) : chars \in NameListCells(ts)} \cup {Number(7), Absent}

\* a list column of numbers: a text, or no cell
NumberCells(texts) == {Text(chars) : chars \in texts} \cup {Absent}

\* files without their ID column: row.ClientID (WorkerID, TaskID) is undefined,
\* which every test of the code takes as it takes the empty text (the model's "")
NoIdUploads ==
    {[NoUpload EXCEPT !.clients = File(<<[ClientID |-> "", PriorityLevel |-> p,
                                          RequestedTaskIDs |-> Text(<<>>)]>>)] : p \in {0, 3}}
    \cup
    {[NoUpload EXCEPT !.workers = File(<<[WorkerID |-> "", Skills |-> Text(<<"a">>),
                                          AvailableSlots |-> Text(<<"[", "1", "]">>),
                                          MaxLoadPerPhase |-> l]>>)] : l \in {0, 1}}
    \cup
    {[NoUpload EXCEPT !.tasks = File(<<[TaskID |-> "", Duration |-> d,
                                        RequiredSkills |-> Text(<<>>),
                                        PreferredPhases |-> Text(<<"1">>),
                                        MaxConcurrent |-> 1]>>)] : d \in {0, 1}}

UploadsP ==
    {[NoUpload EXCEPT !.clients = File(<<[ClientID |-> "C1", PriorityLevel |-> 3,
                                          RequestedTaskIDs |-> ids]>>)] :
        ids \in NameCells({<<"T", "1">>, <<"T", "2">>})}
    \cup
    {[NoUpload EXCEPT !.workers = File(<<[WorkerID |-> "W1", Skills |-> skills,
                                          AvailableSlots |-> slots,
                                          MaxLoadPerPhase |-> 1]>>)] :
        skills \in NameCells({<<"a">>}), slots \in NumberCells(SlotListCells)}
    \cup
    {[NoUpload EXCEPT !.tasks = File(<<[TaskID |-> "T1", Duration |-> 1,
                                        RequiredSkills |-> skills,
                                        PreferredPhases |-> phases,
                                        MaxConcurrent |-> 1]>>)] :
        skills \in NameCells({<<"a">>}), phases \in NumberCells(NumberListCells)}
    \cup NoIdUploads

InitP ==
    /\ fileUploadState \in UploadsP
    /\ clients = <<>>
    /\ workers = <<>>
    /\ tasks = <<>>
    /\ errors = <<>>
    /\ isLoading = TRUE
    /\ isProcessing = TRUE
    /\ activeTab = "upload"
    /\ aiConfigured = FALSE
    /\ aiFixSuggestions = <<>>
    /\ isGeneratingFixes = FALSE
    /\ request = <<>>
    /\ response = NoResponse
    /\ requests = 0
    /\ passes = 0
    /\ round = Round(FALSE, {})
    /\ last = Started(<<>>)

\* processFiles returns, having read the selected files
ProcessFilesRead ==
    /\ ~processFilesThrows(fileUploadState)
    /\ processFilesDelivers(fileUploadState)

NextP ==
    \/ ProcessFilesRead
    \/ ProcessFilesFailed

SpecP == InitP /\ [][NextP]_vars

(***************************************************************************)
(* DataGridSection: inline edits of the numeric cells, on collections of   *)
(* rows with distinct IDs as processFiles has delivered them.  An edit is  *)
(* handleEdit (a click on the cell of `field` in the row `item` of the     *)
(* grid of `type`), the text typed into the input, and handleSave.         *)
(***************************************************************************)
\* item[key] of a JavaScript object: undefined when the object has no such property
Undefined == "undefined"
Prop(item, key) == IF key \in DOMAIN item THEN item[key] ELSE Undefined

\* renderCell's onClick: handleEdit(type, item[`${type}ID`], field, value)
handleEdit(type, item, field) == [type |-> type, id |-> Prop(item, type \o "ID"), field |-> field]

\* updateData of handleSave: the items whose `${type}ID` is the id get the value
updateData(items, editingCell, parsedValue) ==
    [i \in DOMAIN items |->
        IF Prop(items[i], editingCell.type \o "ID") = editingCell.id
        THEN [items[i] EXCEPT ![editingCell.field] = parsedValue]
        ELSE items[i]]

\* the cells the grids render of the numeric fields
NumericCells ==
    {<<"client", "PriorityLevel">>, <<"worker", "MaxLoadPerPhase">>,
     <<"task", "Duration">>, <<"task", "MaxConcurrent">>}

\* the texts typed into the input
EditValues == {<<"0">>, <<"1">>, <<"4">>}

\* the `${type}s` collection of dataState
CollectionOf(type) ==
    CASE type = "client" -> clients [] type = "worker" -> workers [] type = "task" -> tasks

\* the column that holds the ID of a row of the grid of `type`
IdColumn(type) ==
    CASE type = "client" -> "ClientID" [] type = "worker" -> "WorkerID" [] type = "task" -> "TaskID"

\* the edit is recorded with the row that was clicked: its kind, its ID, the field
Edited(type, id, field) == ValidationError("", "", type, id, field, "", "", FALSE)

\* handleSave, after handleEdit on a cell and typing
HandleSave ==
    /\ activeTab = "upload"
    /\ hasData
    /\ \E cell \in NumericCells, editValue \in EditValues :
        \E row \in DOMAIN CollectionOf(cell[1]) :
            LET type == cell[1]
                field == cell[2]
                item == CollectionOf(type)[row]
                editingCell == handleEdit(type, item, field)
                parsedValue == parseInt(editValue).v
                updated == updateData(CollectionOf(type), editingCell, parsedValue)
            IN  /\ clients' = IF type = "client" THEN updated ELSE clients
                /\ workers' = IF type = "worker" THEN updated ELSE workers
                /\ tasks' = IF type = "task" THEN updated ELSE tasks
                /\ last' = Ran("handleSave",
                               Edited(type, item[IdColumn(type)], field), TRUE)
    /\ passes' = 0
    /\ round' = Round(FALSE, {})
    /\ UNCHANGED <<fileUploadState, response, errors, isLoading, isProcessing, activeTab,
                   aiConfigured, aiFixSuggestions, isGeneratingFixes, request, requests>>

ClientsG ==
    {<<[ClientID |-> "C1", PriorityLevel |-> p, RequestedTaskIDs |-> <<>>],
       [ClientID |-> "C2", PriorityLevel |-> q, RequestedTaskIDs |-> <<>>]>> : p, q \in {0, 3}}

WorkersG ==
    {<<[OneWorker EXCEPT !.MaxLoadPerPhase = l]>> : l \in {0, 2}}

TasksG ==
    {<<[OneTask EXCEPT !.Duration = d],
       [OneTask EXCEPT !.TaskID = "T2", !.MaxConcurrent = c]>> : d \in {0, 2}, c \in {0, 1}}

InitG ==
    /\ clients \in ClientsG
    /\ workers \in WorkersG
    /\ tasks \in TasksG
    /\ errors = allErrors(clients, workers, tasks)
    /\ isLoading = FALSE
    /\ isProcessing = FALSE
    /\ activeTab = "upload"
    /\ aiConfigured = FALSE
    /\ aiFixSuggestions = <<>>
    /\ isGeneratingFixes = FALSE
    /\ request = <<>>
    /\ response = NoResponse
    /\ requests = 0
    /\ passes = 1
    /\ round = Round(TRUE, {})
    /\ last = Ran("processFiles", NoError, TRUE)
    /\ fileUploadState = NoUpload

NextG == HandleSave

SpecG == InitG /\ [][NextG]_vars

(***************************************************************************)
(* Properties.                                                             *)
(***************************************************************************)
\* C1: after a validation pass, once autoFixError has been run on every
\* diagnostic that has autoFixAvailable = true, a full validation pass leaves no
\* diagnostic of a kind that was fixed.
C1_FixedKindsStayFixed ==
    [][(/\ last'.op = "runValidation"
        /\ round.clean
        /\ round.fixed /= {}
        /\ \A k \in DOMAIN errors : ~errors[k].autoFixAvailable)
       => \A k \in DOMAIN errors' : DefectKind(errors'[k]) \notin round.fixed]_vars

\* C2: a fix applied to one diagnostic of a list that a validation pass has just
\* produced (by autoFixError or by applyFix) leaves the list that a full
\* validation pass over the changed collections produces.
C2_FastPathIsFullRerun ==
    [][(passes >= 1 /\ last'.op \in {"autoFixError", "applyAIFix"})
       => errors' = allErrors(clients', workers', tasks')]_vars

\* C3: the fix of a dangling-reference diagnostic removes the reported ID from the
\* RequestedTaskIDs of the client it was reported for and changes nothing else.
C3_DanglingReferenceRemoved ==
    [][(/\ passes >= 1
        /\ last'.op \in {"autoFixError", "applyAIFix"}
        /\ last'.error.field = "RequestedTaskIDs")
       => \A i \in DOMAIN clients : \A k \in DOMAIN clients[i].RequestedTaskIDs :
            last'.error.id = "client-task-ref-"
                              \o UniqueKey(clients[i].ClientID, "client", i - 1)
                              \o "-" \o ToString(k - 1)
            => /\ clients' = [clients EXCEPT ![i].RequestedTaskIDs =
                                SelectSeq(@, LAMBDA r : r /= clients[i].RequestedTaskIDs[k])]
               /\ workers' = workers
               /\ tasks' = tasks]_vars

\* C4: exportData goes ahead exactly when the outstanding list holds no entry of
\* type error, whatever the number of its warnings, and refused or not it leaves
\* dataState as it was.
C4_ExportOnlyWithoutErrors ==
    [][last'.op = "exportData"
       => /\ last'.ok = (\A k \in DOMAIN errors : errors[k].type /= "error")
          /\ UNCHANGED <<clients, workers, tasks, errors, isLoading>>]_vars

\* C4 happens: an export that went ahead with a warning outstanding
C4_ExportedWithWarnings ==
    /\ last.op = "exportData"
    /\ last.ok
    /\ \E k \in DOMAIN errors : errors[k].type = "warning"

\* C5: in each collection a validation pass flags no first carrier of an ID and
\* flags every later carrier once, as an error without auto-fix, so k rows with
\* one ID give k - 1 duplicate diagnostics.
C5_DuplicatesFlaggedOnce ==
    last.op = "runValidation" =>
        \A c \in {<<"client", "ClientID", [i \in DOMAIN clients |-> clients[i].ClientID]>>,
                  <<"worker", "WorkerID", [i \in DOMAIN workers |-> workers[i].WorkerID]>>,
                  <<"task", "TaskID", [i \in DOMAIN tasks |-> tasks[i].TaskID]>>} :
            LET ids == c[3]
                duplicates == SelectSeq(errors, LAMBDA e : e.entity = c[1] /\ e.field = c[2])
            IN  /\ \A k \in DOMAIN duplicates :
                    duplicates[k].type = "error" /\ ~duplicates[k].autoFixAvailable
                /\ \A i \in DOMAIN ids :
                    Len(SelectSeq(duplicates, LAMBDA e :
                            e.id = c[1] \o "-duplicate-" \o UniqueKey(ids[i], c[1], i - 1)))
                        = IF \E j \in 1..(i - 1) : ids[j] = ids[i] THEN 1 ELSE 0
                /\ \A x \in {ids[i] : i \in DOMAIN ids} :
                    Len(SelectSeq(duplicates, LAMBDA e : e.entityId = x))
                        = Cardinality({i \in DOMAIN ids : ids[i] = x}) - 1

\* C5 happens: three clients share one ClientID and two of them are flagged
C5_ThreeShareOneId ==
    /\ last.op = "runValidation"
    /\ Len(clients) = 3
    /\ \A i \in DOMAIN clients : clients[i].ClientID = "C1"
    /\ Len(SelectSeq(errors, LAMBDA e : e.field = "ClientID")) = 2

\* C6: a validation pass gives a client whose PriorityLevel is in 1..5 no
\* priority diagnostic and a client whose PriorityLevel is outside exactly one, an
\* error with autoFixAvailable = true.
C6_PriorityRangeDiagnostic ==
    last.op = "runValidation" =>
        LET priority == SelectSeq(errors, LAMBDA e :
                            e.entity = "client" /\ e.field = "PriorityLevel")
        IN  /\ \A k \in DOMAIN priority :
                priority[k].type = "error" /\ priority[k].autoFixAvailable
            /\ \A i \in DOMAIN clients :
                Len(SelectSeq(priority, LAMBDA e :
                        e.id = "client-priority-"
                                \o UniqueKey(clients[i].ClientID, "client", i - 1)))
                    = IF clients[i].PriorityLevel \in 1..5 THEN 0 ELSE 1
            /\ Len(priority)
                = Cardinality({i \in DOMAIN clients : clients[i].PriorityLevel \notin 1..5})

\* C6 happens: a pass over clients with the levels 0, 5 and 6 gives two diagnostics
C6_LevelsZeroFiveSix ==
    /\ last.op = "runValidation"
    /\ Len(clients) = 3
    /\ clients[1].PriorityLevel = 0
    /\ clients[2].PriorityLevel = 5
    /\ clients[3].PriorityLevel = 6
    /\ Len(SelectSeq(errors, LAMBDA e : e.field = "PriorityLevel")) = 2

\* C7: the fix of a priority-range diagnostic, applied by autoFixError or by
\* applyFix, sets the PriorityLevel of the client it was reported for to the
\* nearest bound of 1..5: to 1 when it was below 1, to 5 when it was above 5.
C7_PriorityClampedToNearestBound ==
    [][(/\ passes >= 1
        /\ last'.op \in {"autoFixError", "applyAIFix"}
        /\ last'.error.entity = "client"
        /\ last'.error.field = "PriorityLevel")
       => \A i \in DOMAIN clients :
            clients[i].ClientID = last'.error.entityId
            => /\ clients[i].PriorityLevel < 1 => clients'[i].PriorityLevel = 1
               /\ clients[i].PriorityLevel > 5 => clients'[i].PriorityLevel = 5]_vars

\* C8: a validation pass gives phase n exactly one diagnostic (a warning with
\* entityId "phase-n" and no auto-fix) if and only if the Durations of the tasks
\* whose PreferredPhases contains n sum to more than the MaxLoadPerPhase of the
\* workers whose AvailableSlots contains n, every task and worker counted once
\* for the phase; no other phase gets one.
C8_PhaseSaturationDiagnostic ==
    last.op = "runValidation" =>
        LET Has(list, n) == \E k \in DOMAIN list : list[k] = n
            phases == {n \in 0..9 : \/ \E j \in DOMAIN tasks : Has(tasks[j].PreferredPhases, n)
                                    \/ \E j \in DOMAIN workers : Has(workers[j].AvailableSlots, n)}
            demand(n) == SumSeq([j \in DOMAIN tasks |->
                            IF Has(tasks[j].PreferredPhases, n) THEN tasks[j].Duration ELSE 0])
            supply(n) == SumSeq([j \in DOMAIN workers |->
                            IF Has(workers[j].AvailableSlots, n)
                            THEN workers[j].MaxLoadPerPhase ELSE 0])
            saturation == SelectSeq(errors, LAMBDA e : e.field = "PreferredPhases")
        IN  /\ \A k \in DOMAIN saturation :
                /\ saturation[k].type = "warning"
                /\ ~saturation[k].autoFixAvailable
                /\ \E n \in phases : saturation[k].entityId = "phase-" \o ToString(n)
            /\ \A n \in phases :
                Len(SelectSeq(saturation, LAMBDA e : e.entityId = "phase-" \o ToString(n)))
                    = IF demand(n) > supply(n) THEN 1 ELSE 0

C10_IdFunctionOfFourValues ==
    last.op = "runValidation" =>
        LET Reverse(s) == [i \in DOMAIN s |-> s[Len(s) + 1 - i]]
            produced == errors \o allErrors(Reverse(clients), Reverse(workers), Reverse(tasks))
        IN  \A a, b \in DOMAIN produced :
                (/\ DefectKind(produced[a]) = DefectKind(produced[b])
                 /\ produced[a].entityId = produced[b].entityId)
                => produced[a].id = produced[b].id

\* C11: in the list a validation pass (runValidation or processFiles) leaves,
\* the client diagnostics come before the worker diagnostics, these before the
\* task diagnostics, these before the phase-saturation diagnostics; and a fix
\* leaves the remaining diagnostics in the order they had.
C11_ValidatorOrderKept ==
    [][LET rank(e) == IF e.entity = "client" THEN 1
                      ELSE IF e.entity = "worker" THEN 2
                      ELSE IF e.field /= "PreferredPhases" THEN 3
                      ELSE 4
       IN  /\ (last'.op \in {"runValidation", "processFiles"})
              => \A a, b \in DOMAIN errors' : a < b => rank(errors'[a]) <= rank(errors'[b])
           /\ (last'.op \in {"autoFixError", "applyAIFix"})
              => \/ errors' = errors
                 \/ \E k \in DOMAIN errors :
                        errors' = SubSeq(errors, 1, k - 1) \o SubSeq(errors, k + 1, Len(errors))]_vars

\* C11 happens: a fix has left diagnostics of a worker, of a task and of a phase
C11_ThreeValidatorsAfterFix ==
    /\ last.op = "autoFixError"
    /\ \E a, b, c \in DOMAIN errors :
        /\ a < b /\ b < c
        /\ errors[a].entity = "worker"
        /\ errors[b].entity = "task" /\ errors[b].field /= "PreferredPhases"
        /\ errors[c].field = "PreferredPhases"

\* C12: a validation pass gives every position of a client's RequestedTaskIDs
\* whose value is no task's TaskID exactly one diagnostic, an error with
\* autoFixAvailable = true, and gives a reference whose task exists none.
C12_DanglingReferenceDiagnostic ==
    last.op = "runValidation" =>
        LET taskIds == {tasks[j].TaskID : j \in DOMAIN tasks}
            refErrors == SelectSeq(errors, LAMBDA e :
                            e.entity = "client" /\ e.field = "RequestedTaskIDs")
            dangling == UNION {{<<i, k>> : k \in {n \in DOMAIN clients[i].RequestedTaskIDs :
                                                    clients[i].RequestedTaskIDs[n] \notin taskIds}} :
                               i \in DOMAIN clients}
        IN  /\ \A n \in DOMAIN refErrors :
                refErrors[n].type = "error" /\ refErrors[n].autoFixAvailable
            /\ \A i \in DOMAIN clients : \A k \in DOMAIN clients[i].RequestedTaskIDs :
                Len(SelectSeq(refErrors, LAMBDA e :
                        e.id = "client-task-ref-"
                                \o UniqueKey(clients[i].ClientID, "client", i - 1)
                                \o "-" \o ToString(k - 1)))
                    = IF <<i, k>> \in dangling THEN 1 ELSE 0
            /\ Len(refErrors) = Cardinality(dangling)

\* C12 happens: of the references T99 and T1 of a client, T1 being a task, one is
\* reported, and both positions of a client that names T99 twice
C12_OneOfTwoReferencesDangling ==
    /\ last.op = "runValidation"
    /\ Len(clients) = 2
    /\ clients[1].RequestedTaskIDs = <<"T99", "T1">>
    /\ clients[2].RequestedTaskIDs = <<"T99", "T99">>
    /\ \E j \in DOMAIN tasks : tasks[j].TaskID = "T1"
    /\ Len(SelectSeq(errors, LAMBDA e : e.field = "RequestedTaskIDs")) = 3

\* C13: a validation pass gives every entry of a task's RequiredSkills that is in
\* no worker's Skills exactly one diagnostic, an error with autoFixAvailable =
\* false, and gives a skill that some worker has none, whatever the
\* AvailableSlots of that worker.
C13_SkillCoverageDiagnostic ==
    last.op = "runValidation" =>
        LET allWorkerSkills == UNION {{workers[j].Skills[n] : n \in DOMAIN workers[j].Skills} :
                                      j \in DOMAIN workers}
            skillErrors == SelectSeq(errors, LAMBDA e :
                              e.entity = "task" /\ e.field = "RequiredSkills")
            missing == UNION {{<<i, k>> : k \in {n \in DOMAIN tasks[i].RequiredSkills :
                                                   tasks[i].RequiredSkills[n] \notin allWorkerSkills}} :
                              i \in DOMAIN tasks}
        IN  /\ \A n \in DOMAIN skillErrors :
                skillErrors[n].type = "error" /\ ~skillErrors[n].autoFixAvailable
            /\ \A i \in DOMAIN tasks : \A k \in DOMAIN tasks[i].RequiredSkills :
                Len(SelectSeq(skillErrors, LAMBDA e :
                        e.id = "task-skill-" \o UniqueKey(tasks[i].TaskID, "task", i - 1)
                                \o "-" \o ToString(k - 1)))
                    = IF <<i, k>> \in missing THEN 1 ELSE 0
            /\ Len(skillErrors) = Cardinality(missing)

\* C13 happens: the only worker has the skill "a" and no available slot; of the
\* skills "a" and "b" a task requires, "b" alone is reported
C13_SkillOfUnavailableWorker ==
    /\ last.op = "runValidation"
    /\ Len(workers) = 1
    /\ workers[1].Skills = <<"a">>
    /\ workers[1].AvailableSlots = <<>>
    /\ Len(tasks) = 1
    /\ tasks[1].RequiredSkills = <<"a", "b">>
    /\ Len(SelectSeq(errors, LAMBDA e : e.field = "RequiredSkills")) = 1

\* C14: auto-fix applied to a load-vs-availability warning (MaxLoadPerPhase above
\* the number of AvailableSlots) changes no entity and leaves the warning in the
\* outstanding list.
C14_OverloadWarningDeclined ==
    [][(/\ last'.op \in {"autoFixError", "applyAIFix"}
        /\ last'.error.entity = "worker"
        /\ last'.error.field = "MaxLoadPerPhase"
        /\ last'.error.type = "warning")
       => /\ UNCHANGED <<clients, workers, tasks>>
          /\ \E k \in DOMAIN errors' : errors'[k] = last'.error]_vars

\* C15: a validation pass gives a worker whose AvailableSlots is empty one
\* diagnostic for it, an error with autoFixAvailable = true, and the fix of that
\* diagnostic leaves the worker with a non-empty AvailableSlots.
C15_EmptySlotsFixed ==
    [][/\ (last'.op = "runValidation")
          => \A i \in DOMAIN workers' :
                Len(SelectSeq(errors', LAMBDA e :
                        /\ e.id = "worker-slots-"
                                    \o UniqueKey(workers'[i].WorkerID, "worker", i - 1)
                        /\ e.type = "error"
                        /\ e.autoFixAvailable))
                    = IF workers'[i].AvailableSlots = <<>> THEN 1 ELSE 0
       /\ (/\ last'.op \in {"autoFixError", "applyAIFix"}
           /\ last'.error.entity = "worker"
           /\ last'.error.field = "AvailableSlots")
          => \A i \in DOMAIN workers' :
                workers'[i].WorkerID = last'.error.entityId
                => workers'[i].AvailableSlots /= <<>>]_vars

\* C16: a validation pass gives each Duration, MaxConcurrent and MaxLoadPerPhase
\* below 1 one diagnostic, an error with autoFixAvailable = true, and the fix of
\* that diagnostic sets the field of the entity to 1 and changes no other field.
C16_BelowOneRaisedToOne ==
    [][LET diagnosed(prefix, id, kind, i) ==
               Len(SelectSeq(errors', LAMBDA e :
                       /\ e.id = prefix \o UniqueKey(id, kind, i - 1)
                       /\ e.type = "error"
                       /\ e.autoFixAvailable))
           rows == IF last'.error.entity = "task" THEN tasks ELSE workers
           rowsAfter == IF last'.error.entity = "task" THEN tasks' ELSE workers'
           idOf(r) == IF last'.error.entity = "task" THEN r.TaskID ELSE r.WorkerID
       IN  /\ (last'.op = "runValidation")
              => /\ \A i \in DOMAIN tasks' :
                      /\ diagnosed("task-duration-", tasks'[i].TaskID, "task", i)
                            = IF tasks'[i].Duration < 1 THEN 1 ELSE 0
                      /\ diagnosed("task-concurrent-", tasks'[i].TaskID, "task", i)
                            = IF tasks'[i].MaxConcurrent < 1 THEN 1 ELSE 0
                 /\ \A i \in DOMAIN workers' :
                      diagnosed("worker-load-", workers'[i].WorkerID, "worker", i)
                            = IF workers'[i].MaxLoadPerPhase < 1 THEN 1 ELSE 0
           /\ (/\ last'.op \in {"autoFixError", "applyAIFix"}
               /\ last'.error.type = "error"
               /\ \/ last'.error.entity = "task"
                        /\ last'.error.field \in {"Duration", "MaxConcurrent"}
                  \/ last'.error.entity = "worker"
                        /\ last'.error.field = "MaxLoadPerPhase")
              => \A i \in DOMAIN rows :
                    (idOf(rows[i]) = last'.error.entityId
                        /\ rows[i][last'.error.field] < 1)
                    => rowsAfter[i] = [rows[i] EXCEPT ![last'.error.field] = 1]]_vars

\* C17: a resolver (the manual branch of autoFixError, or applyFix) applied to a
\* diagnostic whose entity already holds a valid value in the diagnostic's field
\* changes none of clients, workers and tasks, and applied a second time to the
\* same diagnostic right after the first it changes none of them again.
C17_ResolverIdempotent ==
    [][LET error == last'.error
           found == FindSuggestion(aiFixSuggestions, error)
           resolver(ds) == IF last'.op = "applyAIFix" \/ ~last'.ok
                           THEN applyFix(found[1], error, ds)
                           ELSE manualAutoFix(error, ds)
           once == [clients |-> clients', workers |-> workers', tasks |-> tasks',
                    errors |-> errors']
           twice == resolver(once)
           valid == CASE error.entity = "client" /\ error.field = "PriorityLevel" ->
                            \A i \in DOMAIN clients :
                                clients[i].ClientID = error.entityId
                                => ~PriorityLevelInvalid(clients[i].PriorityLevel)
                      [] error.entity = "task" /\ error.field = "Duration" ->
                            \A i \in DOMAIN tasks :
                                tasks[i].TaskID = error.entityId => tasks[i].Duration >= 1
                      [] error.entity = "worker" /\ error.field = "MaxLoadPerPhase" ->
                            \A i \in DOMAIN workers :
                                workers[i].WorkerID = error.entityId
                                => workers[i].MaxLoadPerPhase >= 1
                      [] error.entity = "task" /\ error.field = "RequiredSkills" ->
                            \A i \in DOMAIN tasks :
                                tasks[i].TaskID = error.entityId
                                => /\ tasks[i].RequiredSkills /= <<>>
                                   /\ NonEmptySkills(tasks[i].RequiredSkills)
                                        = tasks[i].RequiredSkills
                      [] OTHER -> FALSE
       IN  last'.op \in {"autoFixError", "applyAIFix"}
           => /\ valid => UNCHANGED <<clients, workers, tasks>>
              /\ twice.clients = once.clients
              /\ twice.workers = once.workers
              /\ twice.tasks = once.tasks]_vars

\* C18: parseTaskData turns a PreferredPhases cell into a list of phases by its
\* syntax: "a-b" into a, a+1, .., b (no phase when b < a), "[x,y]" into x, y, and
\* a comma-separated text into its numbers, the other tokens dropped.
C18_PreferredPhasesGrammar ==
    (last.op = "processFiles" /\ last.ok /\ IsFile(fileUploadState.tasks))
    => LET cell == fileUploadState.tasks.rows[1].PreferredPhases.v
           phases == tasks[1].PreferredPhases
           number(token) == CASE token = <<"1">> -> <<1>>
                              [] token = <<"2">> -> <<2>>
                              [] OTHER -> <<>>
       IN  /\ \A a \in 1..MaxPhase, b \in 1..MaxPhase :
                cell = RangeText(a, b)
                => phases = IF b < a THEN <<>> ELSE [i \in 1..(b - a + 1) |-> a + i - 1]
           /\ \A xs \in SeqsOf({2, 4}, 0, 2) : cell = ArrayText(xs) => phases = xs
           /\ \A ts \in SeqsOf(NumberTokens, 1, 3) :
                cell = CommaText(ts)
                => phases = Flatten([k \in DOMAIN ts |-> number(ts[k])])
           /\ cell = <<"1", "-", "3">> => phases = <<1, 2, 3>>
           /\ cell = <<"[", "2", ",", "4", "]">> => phases = <<2, 4>>
           /\ cell = <<"1", ",", " ", "2", ",", " ", "x">> => phases = <<1, 2>>

\* a range of three phases has been parsed
C18_RangeOneToThree ==
    /\ last.op = "processFiles"
    /\ last.ok
    /\ IsFile(fileUploadState.tasks)
    /\ fileUploadState.tasks.rows[1].PreferredPhases.v = RangeText(1, 3)
    /\ tasks[1].PreferredPhases = <<1, 2, 3>>

\* C19: parseWorkerData turns an AvailableSlots cell into a list of slots by the
\* grammar of PreferredPhases: "a-b" into a, a+1, .., b (no slot when b < a),
\* "[x,y]" into x, y, and a comma-separated text into its numbers, the other
\* tokens dropped.
C19_AvailableSlotsGrammar ==
    (last.op = "processFiles" /\ last.ok /\ IsFile(fileUploadState.workers))
    => LET cell == fileUploadState.workers.rows[1].AvailableSlots.v
           slots == workers[1].AvailableSlots
           number(token) == CASE token = <<"1">> -> <<1>>
                              [] token = <<"2">> -> <<2>>
                              [] OTHER -> <<>>
       IN  /\ \A a \in 1..MaxPhase, b \in 1..MaxPhase :
                cell = RangeText(a, b)
                => slots = IF b < a THEN <<>> ELSE [i \in 1..(b - a + 1) |-> a + i - 1]
           /\ \A xs \in SeqsOf({2, 4}, 0, 2) : cell = ArrayText(xs) => slots = xs
           /\ \A ts \in SeqsOf(NumberTokens, 1, 3) :
                cell = CommaText(ts)
                => slots = Flatten([k \in DOMAIN ts |-> number(ts[k])])
           /\ cell = <<"1", "-", "3">> => slots = <<1, 2, 3>>
           /\ cell = <<"[", "2", ",", "4", "]">> => slots = <<2, 4>>
           /\ cell = <<"1", ",", " ", "2", ",", " ", "x">> => slots = <<1, 2>>

\* C20: Skills, RequiredSkills and RequestedTaskIDs are parsed into the trimmed
\* tokens of the cell between its commas, in the order of the cell, the empty
\* tokens dropped; an empty cell gives the empty list.
C20_CommaListTokens ==
    (last.op = "processFiles" /\ last.ok)
    => LET tokens(cell) ==
               LET parts == split(cell.v, ",")
                   names == [k \in DOMAIN parts |-> Str(trim(parts[k]))]
               IN  SelectSeq(names, LAMBDA name : name /= "")
       IN  /\ IsFile(fileUploadState.clients)
              => clients[1].RequestedTaskIDs
                    = tokens(fileUploadState.clients.rows[1].RequestedTaskIDs)
           /\ IsFile(fileUploadState.workers)
              => workers[1].Skills = tokens(fileUploadState.workers.rows[1].Skills)
           /\ IsFile(fileUploadState.tasks)
              => tasks[1].RequiredSkills = tokens(fileUploadState.tasks.rows[1].RequiredSkills)

\* C21: parseClientData, parseWorkerData and parseTaskData never throw, whatever
\* the list cells hold (a text, a number, nothing): they deliver one record per
\* raw record, a cell they cannot read giving the empty list.
C21_ParseNeverThrows ==
    /\ IsFile(fileUploadState.clients) => ~parseClientDataThrows(fileUploadState.clients.rows)
    /\ IsFile(fileUploadState.workers) => ~parseWorkerDataThrows(fileUploadState.workers.rows)
    /\ IsFile(fileUploadState.tasks) => ~parseTaskDataThrows(fileUploadState.tasks.rows)
    /\ (last.op = "processFiles" /\ last.ok)
       => /\ Len(clients) = Len(fileUploadState.clients.rows)
          /\ Len(workers) = Len(fileUploadState.workers.rows)
          /\ Len(tasks) = Len(fileUploadState.tasks.rows)

\* C22: a file whose records lack their ID column (ClientID, WorkerID, TaskID) is
\* never ingested: processFiles fails on it, and no entity is made of its records.
C22_MissingIdColumnAborts ==
    LET lacksId(file, column) ==
            IsFile(file) /\ \E i \in DOMAIN file.rows : file.rows[i][column] = ""
        lacking == \/ lacksId(fileUploadState.clients, "ClientID")
                   \/ lacksId(fileUploadState.workers, "WorkerID")
                   \/ lacksId(fileUploadState.tasks, "TaskID")
    IN  lacking => /\ ~(last.op = "processFiles" /\ last.ok)
                   /\ clients = <<>>
                   /\ workers = <<>>
                   /\ tasks = <<>>

\* C23: a fix operation removes a diagnostic from the outstanding list only when
\* the defect it reports is gone from the collections: a validation pass over the
\* collections the fix leaves does not report that diagnostic.
C23_RemovedOnlyWhenResolved ==
    [][last'.op \in {"autoFixError", "applyAIFix"}
       => \A k \in DOMAIN errors :
            (\A j \in DOMAIN errors' : errors'[j].id /= errors[k].id)
            => \A j \in DOMAIN allErrors(clients', workers', tasks') :
                    allErrors(clients', workers', tasks')[j].id /= errors[k].id]_vars

\* C24: no fix operation (autoFixError, or applyAIFix with whatever suggestion the
\* service returned) removes a diagnostic that is not auto-fixable from the
\* outstanding list, and none changes a collection on behalf of such a diagnostic.
C24_NotAutoFixableUntouched ==
    [][last'.op \in {"autoFixError", "applyAIFix"}
       => /\ \A k \in DOMAIN errors :
                ~errors[k].autoFixAvailable
                => \E j \in DOMAIN errors' : errors'[j] = errors[k]
          /\ ~last'.error.autoFixAvailable => UNCHANGED <<clients, workers, tasks>>]_vars

C26_RequestCompletes ==
    /\ isGeneratingFixes ~> ~isGeneratingFixes
    /\ [](isGeneratingFixes
          => /\ passes < MaxPasses => ENABLED RunValidation
             /\ (\E k \in DOMAIN errors : errors[k].autoFixAvailable) => ENABLED AutoFixError)

\* C27: whenever export is permitted (no outstanding diagnostic is an error), a
\* validation pass over the current collections reports no error.
C27_ExportableMeansValid ==
    validationPassed(errors) => validationPassed(allErrors(clients, workers, tasks))

\* C28: saving an inline edit of a field of an entity changes that field of that
\* entity and nothing else: not the other fields of the entity, not the other
\* entities of its collection, not the other collections, not the outstanding list.
C28_EditChangesOneCell ==
    [][last'.op = "handleSave"
       => LET type == last'.error.entity
              field == last'.error.field
              before == CollectionOf(type)
              after == CASE type = "client" -> clients' [] type = "worker" -> workers'
                         [] type = "task" -> tasks'
          IN  /\ DOMAIN after = DOMAIN before
              /\ \A i \in DOMAIN before :
                    IF before[i][IdColumn(type)] = last'.error.entityId
                    THEN \A column \in DOMAIN before[i] \ {field} :
                            after[i][column] = before[i][column]
                    ELSE after[i] = before[i]
              /\ type /= "client" => clients' = clients
              /\ type /= "worker" => workers' = workers
              /\ type /= "task" => tasks' = tasks
              /\ errors' = errors]_vars

\* C29: a failed ingestion leaves the state as it was: when processFiles fails, the
\* three collections and the outstanding list hold the values they had before the
\* attempt began.
C29_FailedIngestionRestores ==
    [][(last.op = "processFiles:start" /\ last'.op = "processFiles" /\ ~last'.ok)
       => /\ clients' = clients
          /\ workers' = workers
          /\ tasks' = tasks
          /\ errors' = last.before]_vars

\* the fix the "Auto-fix" button of an error runs in the current state: applyFix
\* when the error has an auto-applicable suggestion, the manual branch otherwise
FixOf(error, ds) ==
    LET found == FindSuggestion(aiFixSuggestions, error)
    IN  IF found /= <<>> /\ found[1].autoApplicable
        THEN applyFix(found[1], error, ds)
        ELSE manualAutoFix(error, ds)

\* C30: fixes are order-independent: for two distinct outstanding auto-fixable
\* diagnostics, fixing the first then the second leaves the same three collections
\* and the same outstanding list as fixing the second then the first, each fix
\* taking the same path in both orders.
C30_FixesCommute ==
    activeTab = "validate" =>
        \A i, j \in DOMAIN errors :
            (i /= j /\ errors[i].autoFixAvailable /\ errors[j].autoFixAvailable)
                => FixOf(errors[j], FixOf(errors[i], DataState))
                   = FixOf(errors[i], FixOf(errors[j], DataState))

====
